---- MODULE Spec2Model ----
(***************************************************************************)
(* A model of wudder/client.py: the WudderClient session (refresh token    *)
(* and x-jwt-token header), the background refresh thread, the blocking    *)
(* facade calls of the caller thread, and the error classifier             *)
(* WudderClient._manage_errors.                                            *)
(***************************************************************************)
EXTENDS Integers, Sequences, FiniteSets, TLC

\* ---------------------------------------------------------------- bounds
RefreshInterval == 900  \* seconds _loop_refresh sleeps before each refresh

MaxErrs == 2        \* longest error list handed to _manage_errors
MaxMembers == 3     \* most members in a graphnData JSON object
MaxPairs == 3       \* token pairs the server issues in one behaviour
MaxCalls == 2       \* facade calls made by the caller thread
MaxTicks == 2       \* times the refresh thread wakes up
RetryCap == 2       \* attempts the retry decorator makes at most

\* ------------------------------------------------------ error classifier
Codes == {429, 404, 401, 400, 500, 403}
Messages == {"m1", "m2"}

\* An entry of the transport's error list: a mapping that may lack 'code'.
ErrorEntry ==
    {[code |-> c, message |-> m] : c \in Codes, m \in Messages}
        \cup {[code |-> c] : c \in Codes}
        \cup {[message |-> m] : m \in Messages}

RECURSIVE SeqsUpTo(_, _)
SeqsUpTo(S, n) ==
    IF n = 0 THEN {<<>>}
    ELSE LET shorter == SeqsUpTo(S, n - 1)
         IN  shorter \cup {Append(s, e) : s \in {q \in shorter : Len(q) = n - 1}, e \in S}

ErrorLists == SeqsUpTo(ErrorEntry, MaxErrs)

PyNone == [py |-> "None"]
NoFailure == [kind |-> "none"]
Pending == [kind |-> "pending"]
Raise(kind, payload) == [kind |-> kind, payload |-> payload]

\* _manage_errors with 401 and 404 exchanged.
ManageErrorsSwapped(errs) ==
    IF errs = <<>> THEN NoFailure
    ELSE IF "code" \notin DOMAIN errs[1] THEN Raise("Unexpected", errs[1])
    ELSE IF errs[1].code = 429 THEN Raise("RateLimited", errs[1])
    ELSE IF errs[1].code = 401 THEN Raise("NotFound", errs[1])
    ELSE IF errs[1].code = 404 THEN Raise("Unauthorized", errs[1])
    ELSE IF errs[1].code = 400 THEN Raise("BadRequest", errs[1])
    ELSE NoFailure

\* _manage_errors without the except clause: the KeyError escapes.
ManageErrorsNoExcept(errs) ==
    IF errs = <<>> THEN NoFailure
    ELSE IF "code" \notin DOMAIN errs[1] THEN Raise("KeyError", PyNone)
    ELSE IF errs[1].code = 429 THEN Raise("RateLimited", errs[1])
    ELSE IF errs[1].code = 404 THEN Raise("NotFound", errs[1])
    ELSE IF errs[1].code = 401 THEN Raise("Unauthorized", errs[1])
    ELSE IF errs[1].code = 400 THEN Raise("BadRequest", errs[1])
    ELSE NoFailure

\* _manage_errors without the test for 429.
ManageErrorsNo429(errs) ==
    IF errs = <<>> THEN NoFailure
    ELSE IF "code" \notin DOMAIN errs[1] THEN Raise("Unexpected", errs[1])
    ELSE IF errs[1].code = 404 THEN Raise("NotFound", errs[1])
    ELSE IF errs[1].code = 401 THEN Raise("Unauthorized", errs[1])
    ELSE IF errs[1].code = 400 THEN Raise("BadRequest", errs[1])
    ELSE NoFailure

\* WudderClient._manage_errors: the exception it raises, or NoFailure when
\* it returns.  errors[0]['code'] raises KeyError when the entry has no
\* 'code', which the except clause turns into UnexpectedError(errors[0]).
\* A code that matches none of the four tests falls out of the try block.
ManageErrors(errs) ==
    IF errs = <<>> THEN NoFailure
    ELSE IF "code" \notin DOMAIN errs[1] THEN Raise("Unexpected", errs[1])
    ELSE IF errs[1].code = 429 THEN Raise("RateLimited", errs[1])
    ELSE IF errs[1].code = 404 THEN Raise("NotFound", errs[1])
    ELSE IF errs[1].code = 401 THEN Raise("Unauthorized", errs[1])
    ELSE IF errs[1].code = 400 THEN Raise("BadRequest", errs[1])
    ELSE NoFailure

\* ---------------------------------------------------------------- tokens
Threads == {"caller", "loop"}
Other(t) == IF t = "caller" THEN "loop" ELSE "caller"

None == <<"none", 0>>
Access(p) == <<"access", p>>
Refresh(p) == <<"refresh", p>>
PairOf(tok) == tok[2]

VARIABLES
    refresh_token,  \* self.refresh_token
    header,         \* the x-jwt-token header held by self.graphql
    pc,             \* where each thread stands
    call,           \* the call each thread is making
    issued,         \* token pairs the client has received so far
    calls,          \* facade calls the caller thread has started
    ticks,          \* times time.sleep has returned in the refresh thread
    refreshes,      \* times the refresh thread has called _refresh_call
    installed,      \* history: the refresh token stored by the refresh
                    \* thread, until login stores another
    done,           \* history: the pairs whose _update_tokens completed
    snap,           \* history: the tokens when each thread's call started
    dirty,          \* history: the other thread wrote a token since then
    errors,         \* the list under classification
    classified,     \* what _manage_errors did with it
    evidence,       \* the response get_proof works on
    proof_data      \* what get_proof did with it

vars == <<refresh_token, header, pc, call, issued, calls, ticks, refreshes,
          installed, done, snap, dirty, errors, classified, evidence,
                   proof_data>>
session == <<refresh_token, header, pc, call, issued, calls, ticks, refreshes,
             installed, done, snap, dirty>>

Blank ==
    [op |-> "none", attempts |-> 0, vars_rt |-> None, sent_hdr |-> None,
     overtaken |-> 0, response |-> PyNone, failure |-> NoFailure,
     first |-> NoFailure, only429 |-> TRUE, transient |-> 0]

\* ---------------------------------------------------------------- server
\* What the transport hands back for one request: execute raises (fault),
\* or returns (data, errors) where data is None, holds a null field, or
\* holds the requested object.
ServerErrors ==
    {<<>>} \cup {<<[code |-> c]>> : c \in Codes} \cup {<<[message |-> "m1"]>>}

EthAccounts == {"", "{json}", "garbage"}

\* The object the server can answer with; login's ethAccount field is drawn
\* where login reads it.  RefreshToken declares
\* $refreshToken: String!, so a request built from None has no such answer.
Values(op, rt) ==
    IF op = "login" THEN
        IF issued < MaxPairs
        THEN {[token |-> Access(issued + 1), refreshToken |-> Refresh(issued + 1)]}
        ELSE {}
    ELSE IF op = "refresh" THEN
        IF issued < MaxPairs /\ rt # None
        THEN {[token |-> Access(issued + 1), refreshToken |-> Refresh(issued + 1)]}
        ELSE {}
    ELSE {[originalContent |-> "content"]}

Responses(op, rt) ==
    {[fault |-> TRUE, errors |-> <<>>, data |-> "NoData", value |-> PyNone]}
        \cup {[fault |-> FALSE, errors |-> e, data |-> d, value |-> PyNone] :
                e \in ServerErrors, d \in {"NoData", "NullField"}}
        \cup {[fault |-> FALSE, errors |-> e, data |-> "Value", value |-> v] :
                e \in ServerErrors, v \in Values(op, rt)}

\* The answer's first error carries code 429.
Is429(r) ==
    /\ ~r.fault
    /\ r.errors # <<>>
    /\ "code" \in DOMAIN r.errors[1]
    /\ r.errors[1].code = 429

\* A *_call body that catches the transport's exception and returns None.
CallOnceSwallowFault(r) ==
    IF r.fault THEN [kind |-> "ok", payload |-> PyNone]
    ELSE LET f == ManageErrors(r.errors)
         IN  IF f # NoFailure THEN f
             ELSE IF r.data = "NoData" THEN Raise("TypeError", PyNone)
             ELSE [kind |-> "ok",
                   payload |-> IF r.data = "NullField" THEN PyNone ELSE r.value]

\* One invocation of a decorated *_call method's body:
\*     data, errors = self.graphql.execute(...)
\*     WudderClient._manage_errors(errors)
\*     return data[<field>]
CallOnce(r) ==
    IF r.fault THEN Raise("TransportFault", PyNone)
    ELSE LET f == ManageErrors(r.errors)
         IN  IF f # NoFailure THEN f
             ELSE IF r.data = "NoData" THEN Raise("TypeError", PyNone)
             ELSE [kind |-> "ok",
                   payload |-> IF r.data = "NullField" THEN PyNone ELSE r.value]

\* ----------------------------------------------------------------- retry
\* The retry decorator retries everything.
RetryableAll(kind) == TRUE

\* The retry decorator (wudder/utils.py): rate limiting and transport
\* faults are retried, every other failure surfaces at once.
Retryable(kind) == kind \in {"RateLimited", "TransportFault"}

ShouldRetry(failure, attempts) == Retryable(failure.kind) /\ attempts < RetryCap

\* --------------------------------------------------------------- actions
InCall(t) == pc[t] \notin {"idle", "sleep"}

\* A token write by thread t is seen by the other thread's running call.
Dirtied(t) == [u \in Threads |-> IF u # t /\ InCall(u) THEN TRUE ELSE dirty[u]]

Begin(t, op) ==
    /\ call' = [call EXCEPT ![t] = [Blank EXCEPT !.op = op]]
    /\ snap' = [snap EXCEPT ![t] = <<refresh_token, header>>]
    /\ dirty' = [dirty EXCEPT ![t] = FALSE]
    /\ UNCHANGED <<refresh_token, header, issued, done, errors, classified, evidence,
                   proof_data>>

\* login, up to the call of self._login_call.
Login ==
    /\ pc["caller"] = "idle"
    /\ calls < MaxCalls
    /\ calls' = calls + 1
    /\ pc' = [pc EXCEPT !["caller"] = "exec"]
    /\ Begin("caller", "login")
    /\ UNCHANGED <<ticks, refreshes, installed>>

\* get_event, up to the call of self._get_event_call.
GetEvent ==
    /\ pc["caller"] = "idle"
    /\ calls < MaxCalls
    /\ calls' = calls + 1
    /\ pc' = [pc EXCEPT !["caller"] = "exec"]
    /\ Begin("caller", "get_event")
    /\ UNCHANGED <<ticks, refreshes, installed>>

\* The facade operations besides login and get_event.
FacadeOps ==
    {"update_private_key", "send_event_directly", "prepare", "get_prepared",
     "send_prepared", "get_trace", "get_proof"}

\* One of them, up to the call of its decorated *_call method.
Facade(op) ==
    /\ pc["caller"] = "idle"
    /\ calls < MaxCalls
    /\ calls' = calls + 1
    /\ pc' = [pc EXCEPT !["caller"] = "exec"]
    /\ Begin("caller", op)
    /\ UNCHANGED <<ticks, refreshes, installed>>

\* _loop_refresh calling self._refresh_call() without sleeping first.
TickNoSleep ==
    /\ pc["loop"] = "sleep"
    /\ refreshes < MaxTicks
    /\ refreshes' = refreshes + 1
    /\ pc' = [pc EXCEPT !["loop"] = "vars"]
    /\ Begin("loop", "refresh")
    /\ UNCHANGED <<calls, ticks, installed>>

\* _loop_refresh: time.sleep(900) returns and self._refresh_call() is called.
Tick ==
    /\ pc["loop"] = "sleep"
    /\ ticks < MaxTicks
    /\ ticks' = ticks + 1
    /\ refreshes' = refreshes + 1
    /\ pc' = [pc EXCEPT !["loop"] = "vars"]
    /\ Begin("loop", "refresh")
    /\ UNCHANGED <<calls, installed>>

\* _refresh_call with its variables built once, not on every attempt.
ReadRefreshTokenOnce ==
    /\ pc["loop"] = "vars"
    /\ call' = [call EXCEPT
            !["loop"].vars_rt = IF call["loop"].attempts = 0
                                THEN refresh_token ELSE @,
            !["loop"].overtaken = 0]
    /\ pc' = [pc EXCEPT !["loop"] = "exec"]
    /\ UNCHANGED <<refresh_token, header, issued, calls, ticks, refreshes,
                   installed, done, snap, dirty, errors, classified,
                   evidence, proof_data>>

\* _refresh_call: variables = {'refreshToken': self.refresh_token}.
ReadRefreshToken ==
    /\ pc["loop"] = "vars"
    /\ call' = [call EXCEPT !["loop"].vars_rt = refresh_token,
                            !["loop"].overtaken = 0]
    /\ pc' = [pc EXCEPT !["loop"] = "exec"]
    /\ UNCHANGED <<refresh_token, header, issued, calls, ticks, refreshes, installed, done,
                   snap, dirty, errors, classified, evidence,
                   proof_data>>

\* A failing call that drops the stored refresh token on its way out.
SurfaceClearing(t, c, failure) ==
    /\ call' = [call EXCEPT ![t] = [c EXCEPT !.failure = failure]]
    /\ pc' = [pc EXCEPT ![t] = IF t = "loop" THEN "dead" ELSE "raised"]
    /\ refresh_token' = None
    /\ UNCHANGED <<header, done, dirty>>

\* The exception leaves the decorated call and, nothing catching it, leaves
\* login / get_event (the caller sees it) or _loop_refresh (the thread ends).
Surface(t, c, failure) ==
    /\ call' = [call EXCEPT ![t] = [c EXCEPT !.failure = failure]]
    /\ pc' = [pc EXCEPT ![t] = IF t = "loop" THEN "dead" ELSE "raised"]
    /\ UNCHANGED <<refresh_token, header, done, dirty>>

\* The decorator calls the method again; _refresh_call builds its variables
\* anew.
Again(t, c) ==
    /\ call' = [call EXCEPT ![t] = c]
    /\ pc' = [pc EXCEPT ![t] = IF c.op = "refresh" THEN "vars" ELSE "exec"]
    /\ UNCHANGED <<refresh_token, header, done, dirty>>

\* get_event without its test for None: line 83 subscripts None.
ProceedNoCheck(t, c, value) ==
    LET c1 == [c EXCEPT !.response = value]
    IN  IF value = PyNone /\ c.op \notin {"update_private_key", "get_trace", "get_proof"}
        THEN Surface(t, c1, Raise("TypeError", PyNone))
        ELSE /\ call' = [call EXCEPT ![t] = c1]
             /\ pc' = [pc EXCEPT ![t] = IF c.op \in {"login", "refresh"}
                                        THEN "upd_rt" ELSE "returned"]
             /\ UNCHANGED <<refresh_token, header, done, dirty>>

\* Operations that subscript the response they got (TypeError on None).
Subscripting == {"send_event_directly", "prepare", "get_prepared", "send_prepared"}
\* Operations that decode a JSON field of it, which raises on a bad payload.
Decoding == {"prepare", "get_prepared", "get_event", "get_proof"}

\* A facade operation that drops the x-jwt-token header when it is done.
ProceedDroppingHeader(t, c, value) ==
    LET c1 == [c EXCEPT !.response = value]
    IN  IF c.op \in {"login", "refresh"} THEN
            IF value = PyNone
            THEN Surface(t, c1, Raise("TypeError", PyNone))
            ELSE /\ call' = [call EXCEPT ![t] = c1]
                 /\ pc' = [pc EXCEPT ![t] = "upd_rt"]
                 /\ UNCHANGED <<refresh_token, header, done, dirty>>
        ELSE /\ call' = [call EXCEPT ![t] = c1]
             /\ pc' = [pc EXCEPT ![t] = "returned"]
             /\ header' = None
             /\ UNCHANGED <<refresh_token, done, dirty>>

\* The decorated call returned `value` to the operation that made it.
\* login and _loop_refresh subscript it (TypeError on None) and enter
\* _update_tokens; get_event raises NotFoundError('event not found') on None;
\* the other operations subscript it, decode it or hand it back, and return.
Proceed(t, c, value) ==
    LET c1 == [c EXCEPT !.response = value]
    IN  IF c.op \in {"login", "refresh"} THEN
            IF value = PyNone
            THEN Surface(t, c1, Raise("TypeError", PyNone))
            ELSE /\ call' = [call EXCEPT ![t] = c1]
                 /\ pc' = [pc EXCEPT ![t] = "upd_rt"]
                 /\ UNCHANGED <<refresh_token, header, done, dirty>>
        ELSE IF value = PyNone /\ c.op = "get_event"
        THEN Surface(t, c1, Raise("NotFound", PyNone))
        ELSE IF value = PyNone /\ c.op \in Subscripting
        THEN Surface(t, c1, Raise("TypeError", PyNone))
        ELSE \/ /\ call' = [call EXCEPT ![t] = c1]
                /\ pc' = [pc EXCEPT ![t] = "returned"]
                /\ UNCHANGED <<refresh_token, header, done, dirty>>
             \/ /\ value # PyNone
                /\ c.op \in Decoding
                /\ Surface(t, c1, Raise("DecodeError", PyNone))

\* One attempt of the decorated call: the request goes out under the current
\* header, the server answers, and the decorator returns, retries or lets
\* the exception through.
Execute(t) ==
    /\ pc[t] = "exec"
    /\ \E r \in Responses(call[t].op, call[t].vars_rt) :
        LET out == CallOnce(r)
            att == call[t].attempts + 1
            c == [call[t] EXCEPT
                    !.attempts = att,
                    !.sent_hdr = IF call[t].op = "refresh" THEN header ELSE @,
                    !.first = IF att = 1 /\ out.kind # "ok" THEN out ELSE @,
                    !.only429 = @ /\ Is429(r),
                    !.transient = IF Is429(r) \/ r.fault THEN @ + 1 ELSE @]
        IN  /\ issued' = IF /\ out.kind = "ok"
                            /\ out.payload # PyNone
                            /\ call[t].op \in {"login", "refresh"}
                         THEN issued + 1 ELSE issued
            /\ IF out.kind = "ok" THEN Proceed(t, c, out.payload)
               ELSE IF ShouldRetry(out, att) THEN Again(t, c)
               ELSE Surface(t, c, out)
    /\ UNCHANGED <<calls, ticks, refreshes, installed, snap, errors, classified, evidence,
                   proof_data>>

\* _update_tokens storing the access token as the refresh token.
UpdateTokensRefreshSwapped(t) ==
    /\ pc[t] = "upd_rt"
    /\ refresh_token' = call[t].response.token
    /\ pc' = [pc EXCEPT ![t] = "upd_hdr"]
    /\ dirty' = Dirtied(t)
    /\ installed' = IF t = "loop" THEN call[t].response.refreshToken ELSE None
    /\ UNCHANGED <<header, call, issued, calls, ticks, refreshes, done, snap,
                   errors, classified, evidence,
                   proof_data>>

\* _update_tokens: self.refresh_token = refresh_token.
UpdateTokensRefresh(t) ==
    /\ pc[t] = "upd_rt"
    /\ refresh_token' = call[t].response.refreshToken
    /\ pc' = [pc EXCEPT ![t] = "upd_hdr"]
    /\ dirty' = Dirtied(t)
    /\ installed' = IF t = "loop" THEN call[t].response.refreshToken ELSE None
    /\ UNCHANGED <<header, call, issued, calls, ticks, refreshes, done, snap,
                   errors, classified, evidence,
                   proof_data>>

\* _update_tokens: self.graphql.set_headers({'x-jwt-token': token}); then
\* _loop_refresh goes back to sleep, and login decodes ethAccount
\* (json.loads raises on a string that is not JSON) and returns.
UpdateTokensHeader(t) ==
    /\ pc[t] = "upd_hdr"
    /\ header' = call[t].response.token
    /\ done' = [latest |-> PairOf(call[t].response.token),
                 earlier |-> IF done.latest = 0 THEN done.earlier
                             ELSE done.earlier \cup {done.latest}]
    /\ dirty' = [Dirtied(t) EXCEPT ![t] = IF t = "loop" THEN FALSE ELSE @]
    /\ IF t = "loop"
       THEN /\ pc' = [pc EXCEPT ![t] = "sleep"]
            /\ call' = [call EXCEPT ![t] = Blank]
            /\ snap' = [snap EXCEPT ![t] = <<None, None>>]
       ELSE /\ snap' = snap
            /\ \E a \in EthAccounts :
                IF a = "garbage"
                THEN /\ pc' = [pc EXCEPT ![t] = "raised"]
                     /\ call' = [call EXCEPT
                            ![t].failure = Raise("JSONDecodeError", PyNone),
                            !["loop"].overtaken =
                                IF pc["loop"] \in {"exec", "upd_rt", "upd_hdr"}
                                THEN PairOf(call[t].response.token) ELSE @]
                ELSE /\ pc' = [pc EXCEPT ![t] = "returned"]
                     /\ call' = [call EXCEPT
                            !["loop"].overtaken =
                                IF pc["loop"] \in {"exec", "upd_rt", "upd_hdr"}
                                THEN PairOf(call[t].response.token) ELSE @]
    /\ UNCHANGED <<refresh_token, issued, calls, ticks, refreshes, installed, errors, classified, evidence,
                   proof_data>>

\* The caller has its result, or has caught the exception, and goes on.
Return ==
    /\ pc["caller"] \in {"returned", "raised"}
    /\ pc' = [pc EXCEPT !["caller"] = "idle"]
    /\ call' = [call EXCEPT !["caller"] = Blank]
    /\ snap' = [snap EXCEPT !["caller"] = <<None, None>>]
    /\ dirty' = [dirty EXCEPT !["caller"] = FALSE]
    /\ UNCHANGED <<refresh_token, header, issued, calls, ticks, refreshes, installed, done,
                   errors, classified, evidence,
                   proof_data>>

\* A constructor that starts out holding a token pair.
InitLoggedIn ==
    /\ refresh_token = Refresh(1)
    /\ header = Access(1)
    /\ pc = [t \in Threads |-> IF t = "loop" THEN "sleep" ELSE "idle"]
    /\ call = [t \in Threads |-> Blank]
    /\ issued = 0
    /\ calls = 0
    /\ ticks = 0
    /\ refreshes = 0
    /\ installed = None
    /\ done = [latest |-> 0, earlier |-> {}]
    /\ snap = [t \in Threads |-> <<None, None>>]
    /\ dirty = [t \in Threads |-> FALSE]
    /\ errors = <<>>
    /\ classified = Pending
    /\ evidence = PyNone
    /\ proof_data = Pending

\* __init__: no refresh token, no header, and the refresh thread started.
Init ==
    /\ refresh_token = None
    /\ header = None
    /\ pc = [t \in Threads |-> IF t = "loop" THEN "sleep" ELSE "idle"]
    /\ call = [t \in Threads |-> Blank]
    /\ issued = 0
    /\ calls = 0
    /\ ticks = 0
    /\ refreshes = 0
    /\ installed = None
    /\ done = [latest |-> 0, earlier |-> {}]
    /\ snap = [t \in Threads |-> <<None, None>>]
    /\ dirty = [t \in Threads |-> FALSE]
    /\ errors = <<>>
    /\ classified = Pending
    /\ evidence = PyNone
    /\ proof_data = Pending

Next ==
    \/ Login
    \/ GetEvent
    \/ Tick
    \/ ReadRefreshToken
    \/ \E t \in Threads : Execute(t)
    \/ \E t \in Threads : UpdateTokensRefresh(t)
    \/ \E t \in Threads : UpdateTokensHeader(t)
    \/ Return

Spec == Init /\ [][Next]_vars

\* The same client with the caller using the whole facade.
NextFacade ==
    \/ Next
    \/ \E op \in FacadeOps : Facade(op)

SpecFacade == Init /\ [][NextFacade]_vars

\* ---------------------------------------------- the classifier on its own
InitClassify ==
    /\ errors \in ErrorLists
    /\ classified = Pending
    /\ evidence = PyNone
    /\ proof_data = Pending
    /\ refresh_token = None
    /\ header = None
    /\ pc = [t \in Threads |-> IF t = "loop" THEN "sleep" ELSE "idle"]
    /\ call = [t \in Threads |-> Blank]
    /\ issued = 0
    /\ calls = 0
    /\ ticks = 0
    /\ refreshes = 0
    /\ installed = None
    /\ done = [latest |-> 0, earlier |-> {}]
    /\ snap = [t \in Threads |-> <<None, None>>]
    /\ dirty = [t \in Threads |-> FALSE]

\* WudderClient._manage_errors(errors)
Classify ==
    /\ classified = Pending
    /\ classified' = ManageErrors(errors)
    /\ UNCHANGED <<errors, evidence, proof_data, session>>

NextClassify == Classify

SpecClassify == InitClassify /\ [][NextClassify]_vars

\* -------------------------------------------------------- get_proof alone
ProofKeys == {"block_proof", "proof", "prefixes", "anchor"}
ProofValues == {"", "v"}

\* The text of graphnData: a JSON object written as its members in order
\* (a key may repeat), or a text that is not JSON.
JsonTexts ==
    {[valid |-> TRUE, members |-> ms] :
        ms \in SeqsUpTo(ProofKeys \X ProofValues, MaxMembers)}
        \cup {[valid |-> FALSE, members |-> <<>>]}

\* The evidence object _get_proof_call returns: None, or graphnData that is
\* None or a JSON text.
Evidences ==
    {PyNone} \cup {[graphnData |-> PyNone]}
        \cup {[graphnData |-> txt] : txt \in JsonTexts}

\* json.loads on an object: a dict in which a repeated key keeps the value
\* of its last member.
JsonLoads(members) ==
    LET keys == {members[i][1] : i \in DOMAIN members}
        last(k) == CHOOSE i \in DOMAIN members :
                        /\ members[i][1] = k
                        /\ \A j \in DOMAIN members : members[j][1] = k => j <= i
    IN  [k \in keys |-> members[last(k)][2]]

Returns(value) == [kind |-> "return", value |-> value]

\* get_proof filling the absent proof and prefixes with empty strings.
GetProofDefaults(response) ==
    IF response = PyNone THEN Returns(PyNone)
    ELSE IF response.graphnData = PyNone THEN Returns(PyNone)
    ELSE IF ~response.graphnData.valid THEN Raise("JSONDecodeError", PyNone)
    ELSE LET graphn_data == JsonLoads(response.graphnData.members)
             get(k) == IF k \in DOMAIN graphn_data THEN graphn_data[k] ELSE ""
         IN  IF "block_proof" \notin DOMAIN graphn_data
             THEN Raise("KeyError", PyNone)
             ELSE Returns([k \in {"block_proof", "proof", "prefixes"} |-> get(k)])

\* WudderClient.get_proof after self._get_proof_call returned `response`.
GetProof(response) ==
    IF response = PyNone THEN Returns(PyNone)
    ELSE IF response.graphnData = PyNone THEN Returns(PyNone)
    ELSE IF ~response.graphnData.valid THEN Raise("JSONDecodeError", PyNone)
    ELSE LET graphn_data == JsonLoads(response.graphnData.members)
         IN  IF "block_proof" \notin DOMAIN graphn_data
             THEN Raise("KeyError", PyNone)
             ELSE IF "proof" \in DOMAIN graphn_data
             THEN IF "prefixes" \notin DOMAIN graphn_data
                  THEN Raise("KeyError", PyNone)
                  ELSE Returns([k \in {"block_proof", "proof", "prefixes"}
                                    |-> graphn_data[k]])
             ELSE Returns([k \in {"block_proof"} |-> graphn_data[k]])

InitProof ==
    /\ evidence \in Evidences
    /\ proof_data = Pending
    /\ errors = <<>>
    /\ classified = Pending
    /\ refresh_token = None
    /\ header = None
    /\ pc = [t \in Threads |-> IF t = "loop" THEN "sleep" ELSE "idle"]
    /\ call = [t \in Threads |-> Blank]
    /\ issued = 0
    /\ calls = 0
    /\ ticks = 0
    /\ refreshes = 0
    /\ installed = None
    /\ done = [latest |-> 0, earlier |-> {}]
    /\ snap = [t \in Threads |-> <<None, None>>]
    /\ dirty = [t \in Threads |-> FALSE]

\* get_proof, lines 98-108.
ProofData ==
    /\ proof_data = Pending
    /\ proof_data' = GetProof(evidence)
    /\ UNCHANGED <<errors, classified, evidence, session>>

NextProof == ProofData

SpecProof == InitProof /\ [][NextProof]_vars

\* ================================================================ claims
KnownCodes == {429, 404, 401, 400}
Classified == classified # Pending
FirstHasCode == errors # <<>> /\ "code" \in DOMAIN errors[1]

\* C1: a non-empty error list whose first entry has a code outside
\* {429, 404, 401, 400} is classified as an Unexpected failure carrying
\* that first entry, never as "no failure".
C1_OtherCodeIsUnexpected ==
    (Classified /\ FirstHasCode /\ errors[1].code \notin KnownCodes)
        => classified = Raise("Unexpected", errors[1])

\* C2: a first entry with code 429, 404, 401 or 400 is classified as
\* RateLimited, NotFound, Unauthorized or BadRequest respectively, carrying
\* that first entry; the empty list is no failure.
C2_KnownCodesClassified ==
    Classified =>
        /\ errors = <<>> => classified = NoFailure
        /\ FirstHasCode =>
            /\ errors[1].code = 429 => classified = Raise("RateLimited", errors[1])
            /\ errors[1].code = 404 => classified = Raise("NotFound", errors[1])
            /\ errors[1].code = 401 => classified = Raise("Unauthorized", errors[1])
            /\ errors[1].code = 400 => classified = Raise("BadRequest", errors[1])

C2_Witness ==
    /\ Classified
    /\ Len(errors) = 2
    /\ errors[1] = [code |-> 401, message |-> "m1"]
    /\ errors[2] = [code |-> 404]
    /\ classified.kind = "Unauthorized"

\* C3: a first entry that is a mapping without a code field is classified
\* as the Unexpected failure carrying that entry; no other exception (the
\* KeyError of the lookup) gets out.
C3_MissingCodeIsUnexpected ==
    (Classified /\ errors # <<>> /\ "code" \notin DOMAIN errors[1])
        => classified = Raise("Unexpected", errors[1])

C3_Witness ==
    /\ Classified
    /\ errors = <<[message |-> "m2"]>>
    /\ classified.kind = "Unexpected"

\* C4: a scheduled refresh call that ends in a failure leaves the refresh
\* loop running.
C4_LoopSurvivesFailure ==
    call["loop"].failure # NoFailure => pc["loop"] # "dead"

\* C5: when a refresh request built from the pre-login refresh token has
\* its response applied after a login's _update_tokens completed, the
\* stored refresh token and the header still hold the login's pair.
C5_StaleRefreshLosesToLogin ==
    [][(/\ pc["loop"] = "upd_hdr"
        /\ pc'["loop"] = "sleep"
        /\ call["loop"].overtaken # 0
        /\ call["loop"].vars_rt # Refresh(call["loop"].overtaken))
       => (/\ refresh_token' = Refresh(call["loop"].overtaken)
           /\ header' = Access(call["loop"].overtaken))]_vars

\* C6: once no _update_tokens call is under way, the stored refresh token
\* and the header's access token belong to one and the same pair.
C6_OnePairAfterUpdates ==
    (\A t \in Threads : pc[t] \notin {"upd_rt", "upd_hdr"})
        => PairOf(refresh_token) = PairOf(header)

\* A token is up to date when no completed update has superseded it.
UpToDate(tok) ==
    done.latest = 0 \/ (tok # None /\ PairOf(tok) \notin done.earlier)

\* C7: a request built after an _update_tokens call completed uses the
\* tokens of that update or of one completing later: the refresh token
\* _refresh_call reads, and the header a request goes out under, are never
\* those of an earlier completed update.
C7_ReadsSeeLatestUpdate ==
    [][/\ (pc["loop"] = "vars" /\ pc'["loop"] = "exec") => UpToDate(refresh_token)
       /\ \A t \in Threads :
            (pc[t] = "exec" /\ call'[t].attempts = call[t].attempts + 1)
                => UpToDate(header)]_vars

Failed(t) == pc[t] \in {"raised", "dead"}

C9_LoginInstallsPair ==
    (/\ pc["caller"] = "returned"
     /\ call["caller"].op = "login"
     /\ ~dirty["caller"])
    => /\ header = call["caller"].response.token
       /\ refresh_token = call["caller"].response.refreshToken

C9_Witness ==
    /\ pc["caller"] = "returned"
    /\ call["caller"].op = "login"
    /\ ~dirty["caller"]
    /\ call["caller"].response.token = Access(2)
    /\ header = Access(2)
    /\ refresh_token = Refresh(2)

NonRetryable == {"NotFound", "Unauthorized", "BadRequest", "Unexpected"}

\* C10: a decorated call whose first attempt ends in NotFound,
\* Unauthorized, BadRequest or Unexpected is attempted exactly once and
\* surfaces that failure, kind and payload unchanged.
C10_NonRetryableSurfacesAtOnce ==
    \A t \in Threads :
        (Failed(t) /\ call[t].first.kind \in NonRetryable)
            => call[t].attempts = 1 /\ call[t].failure = call[t].first

C10_Witness ==
    /\ pc["caller"] = "raised"
    /\ call["caller"].op = "get_event"
    /\ call["caller"].first = Raise("NotFound", [code |-> 404])
    /\ call["caller"].failure = call["caller"].first
    /\ call["caller"].attempts = 1

Retrying(t) == pc[t] \in {"vars", "exec"} /\ call[t].failure = NoFailure

\* C11: with retry cap RetryCap, a call answered with code 429 on every
\* attempt is retried until exactly RetryCap attempts are made and then
\* ends in the RateLimited failure; every call, the caller's later ones
\* included, starts its count afresh.
C11_PersistentRateLimit ==
    \A t \in Threads :
        (call[t].attempts > 0 /\ call[t].only429)
            => IF call[t].attempts < RetryCap
               THEN Retrying(t)
               ELSE /\ call[t].attempts = RetryCap
                    /\ Failed(t)
                    /\ call[t].failure = Raise("RateLimited", [code |-> 429])

C11_Witness ==
    /\ calls = 2
    /\ pc["caller"] = "raised"
    /\ call["caller"].only429
    /\ call["caller"].attempts = RetryCap
    /\ call["caller"].failure.kind = "RateLimited"

Succeeded(t) == pc[t] \in {"upd_rt", "upd_hdr", "returned"}

\* C12: after N transient failures (429 answers or transport faults), N
\* below the retry cap, the call is still being retried; and a call that
\* succeeded did so on attempt N + 1 and handed back what the server
\* answered (a token pair for login and refresh).
C12_TransientThenSuccess ==
    \A t \in Threads :
        LET n == call[t].transient
        IN  /\ (call[t].attempts > 0 /\ n = call[t].attempts /\ n < RetryCap)
                => Retrying(t)
            /\ Succeeded(t)
                => /\ call[t].attempts = n + 1
                   /\ n < RetryCap
                   /\ call[t].op \in {"login", "refresh"}
                        => call[t].response # PyNone

C12_Witness ==
    /\ pc["caller"] = "upd_rt"
    /\ call["caller"].op = "login"
    /\ call["caller"].transient = 1
    /\ call["caller"].attempts = 2
    /\ call["caller"].response.token = Access(1)

\* The server's first answer to the call carried code 404.
Answered404(t) ==
    /\ call[t].first # NoFailure
    /\ "code" \in DOMAIN call[t].first.payload
    /\ call[t].first.payload.code = 404

\* The server's first answer was accepted and its evidence field was null.
AnsweredNull(t) ==
    /\ call[t].attempts = 1
    /\ call[t].first = NoFailure
    /\ call[t].response = PyNone

\* C13: get_event on a hash the server reports absent, by an error with
\* code 404 or by a null evidence field, ends in the NotFound failure and
\* in no other, after exactly one attempt.
C13_AbsentEventIsNotFound ==
    (/\ pc["caller"] \in {"raised", "returned"}
     /\ call["caller"].op = "get_event"
     /\ (Answered404("caller") \/ AnsweredNull("caller")))
    => /\ pc["caller"] = "raised"
       /\ call["caller"].failure.kind = "NotFound"
       /\ call["caller"].attempts = 1

C13_Witness ==
    /\ pc["caller"] = "raised"
    /\ call["caller"].op = "get_event"
    /\ AnsweredNull("caller")
    /\ call["caller"].failure = Raise("NotFound", PyNone)

\* The graphnData object has a member with key k.
HasMember(k) ==
    \E i \in DOMAIN evidence.graphnData.members :
        evidence.graphnData.members[i][1] = k

\* The value of the last member with key k.
MemberValue(k) ==
    LET ms == evidence.graphnData.members
        i == CHOOSE n \in DOMAIN ms :
                ms[n][1] = k /\ \A j \in DOMAIN ms : j > n => ms[j][1] # k
    IN  ms[i][2]

NoRecord == evidence = PyNone \/ evidence.graphnData = PyNone

\* C14: get_proof returns nothing when there is no record or no
\* graphnData; for a graphnData with block_proof and without proof the
\* result has the one key block_proof; with block_proof, proof and prefixes
\* it has exactly these three; each with the value of the payload.
C14_ProofOmitsMissingFields ==
    proof_data # Pending =>
        /\ NoRecord => proof_data = Returns(PyNone)
        /\ (~NoRecord /\ evidence.graphnData.valid /\ HasMember("block_proof"))
            => /\ ~HasMember("proof")
                    => /\ proof_data.kind = "return"
                       /\ DOMAIN proof_data.value = {"block_proof"}
                       /\ proof_data.value["block_proof"] = MemberValue("block_proof")
               /\ (HasMember("proof") /\ HasMember("prefixes"))
                    => /\ proof_data.kind = "return"
                       /\ DOMAIN proof_data.value = {"block_proof", "proof", "prefixes"}
                       /\ \A k \in {"block_proof", "proof", "prefixes"} :
                            proof_data.value[k] = MemberValue(k)

C14_Witness ==
    /\ ~NoRecord
    /\ evidence.graphnData.members = <<<<"block_proof", "v">>, <<"anchor", "v">>>>
    /\ proof_data.kind = "return"
    /\ DOMAIN proof_data.value = {"block_proof"}

\* The refresh threads of the client that are running.
ActiveLoops == {t \in Threads \ {"caller"} : pc[t] # "dead"}

\* C15: exactly one refresh loop is active in every state after
\* construction.
C15_ExactlyOneLoop == Cardinality(ActiveLoops) = 1

\* C16: each refresh request carries the refresh token stored when it is
\* built, which is the one the previous tick stored unless login stored
\* another since; and a successful refresh stores the refresh token and the
\* access token of its response.
C16_RefreshUsesAndStoresTokens ==
    [][/\ (pc["loop"] = "vars" /\ pc'["loop"] = "exec")
            => /\ call'["loop"].vars_rt = refresh_token
               /\ installed # None => call'["loop"].vars_rt = installed
       /\ (pc["loop"] = "upd_rt" /\ pc'["loop"] = "upd_hdr")
            => refresh_token' = call["loop"].response.refreshToken
       /\ (pc["loop"] = "upd_hdr" /\ pc'["loop"] = "sleep")
            => header' = call["loop"].response.token]_vars

C16_Witness ==
    /\ pc["loop"] = "exec"
    /\ ticks = 2
    /\ installed = Refresh(2)
    /\ call["loop"].vars_rt = Refresh(2)

\* The step writes a token on behalf of login or of the refresh loop.
TokenWrite ==
    \E t \in Threads :
        /\ call[t].op \in {"login", "refresh"}
        /\ pc[t] \in {"upd_rt", "upd_hdr"}
        /\ pc'[t] # pc[t]

\* C17: the stored refresh token and the header change only in the two
\* statements of _update_tokens run by login or by the refresh loop; every
\* other facade operation, returning or raising, leaves both as they were
\* when it started unless one of those two wrote meanwhile.
C17_TokensChangeOnlyInUpdateTokens ==
    /\ [][(refresh_token' # refresh_token \/ header' # header) => TokenWrite]_vars
    /\ [](\A t \in Threads :
            (/\ call[t].op \in FacadeOps \cup {"get_event"}
             /\ pc[t] \in {"returned", "raised"}
             /\ ~dirty[t])
                => <<refresh_token, header>> = snap[t])

C17_Witness ==
    /\ pc["caller"] = "raised"
    /\ call["caller"].op = "send_prepared"
    /\ ~dirty["caller"]
    /\ refresh_token = Refresh(1)
    /\ header = Access(1)

\* C18: a new client holds no refresh token and no header, and keeps none
\* until a login or refresh call has handed it a pair: construction logs
\* nobody in and a failed call installs nothing.
C18_EmptyUntilFirstSuccess ==
    /\ issued = 0 => refresh_token = None /\ header = None
    /\ (calls = 0 /\ ticks = 0) => issued = 0

C18_Witness ==
    /\ pc["caller"] = "raised"
    /\ call["caller"].op = "login"
    /\ pc["loop"] = "dead"
    /\ issued = 0
    /\ refresh_token = None
    /\ header = None

\* Seconds the refresh thread has spent in time.sleep.
Slept == ticks * RefreshInterval

\* C19: every refresh call comes after a full interval of sleep of its
\* own: the k-th call is made only when k intervals have been slept, the
\* first one included.
C19_SleepBeforeEachRefresh ==
    /\ Slept >= refreshes * RefreshInterval
    /\ call["loop"].op = "refresh" => refreshes >= 1 /\ Slept >= RefreshInterval

C19_Witness ==
    /\ pc["loop"] = "exec"
    /\ refreshes = 2
    /\ Slept = 2 * RefreshInterval

====
